---------------------------- MODULE Spec2Model ----------------------------
(***************************************************************************)
(* A model of the RADIUS-profile resource of terraform-provider-restapi:   *)
(* the CRUD handlers of the profile resource, the JSON contract between    *)
(* the tracked resource data and the remote document, and the remote API   *)
(* they talk to.                                                           *)
(*                                                                         *)
(* The handlers in force are the ones registered by resourceProfile()      *)
(* (Create/Read/Update/Delete).  The earlier APIObject-based handlers      *)
(* (delete with the "404" string match, exists) are modelled next to them  *)
(* under their own names.                                                  *)
(***************************************************************************)
EXTENDS Integers, Sequences, FiniteSets, TLC

VARIABLES
    cfg,     \* the configuration of the resource (the plan), fixed per run
    d,       \* *schema.ResourceData: tracked identity and tracked fields
    remote,  \* the remote API: the profile document, if any, and its path
    ret,     \* what the last handler returned and the response it saw
    log,     \* the HTTP requests the last handler issued, in order
    provider,\* the provider: what it is configured with, and its API client
    tokens   \* the token manager of the API client and the callers of get_token

vars == <<cfg, d, remote, ret, log, provider, tokens>>

\* the variables of the profile resource, and those of the provider
resourceVars == <<cfg, d, remote, ret, log>>
providerVars == <<provider, tokens>>

---------------------------------------------------------------------------
(* Bounds of the model *)

\* the most list entries (depends, reply and control together) a configuration has
MaxItems == 2

---------------------------------------------------------------------------
(* Small helpers *)

Nothing == <<>>

SeqsUpTo(S, n) == UNION {[1..k -> S] : k \in 0..n}

\* strings.Contains over texts kept as sequences of pieces, every digit a
\* piece of its own
Contains(text, sub) ==
    \E i \in 0..(Len(text) - Len(sub)) :
        \A j \in 1..Len(sub) : text[i + j] = sub[j]

---------------------------------------------------------------------------
(* The configuration space: what the schema accepts *)

OperatorIds == {"op_1"}
ProfileIds == {"abc"}
DependsPool == {"dep_a", "dep_b"}

\* enabled, weight (1..100000, default 100), description, parameter_schema
ScalarSettings ==
    { [enabled |-> TRUE, weight |-> 100, description |-> "",
       parameter_schema |-> ""],
      [enabled |-> FALSE, weight |-> 1, description |-> "Gold tier.",
       parameter_schema |-> ""],
      [enabled |-> TRUE, weight |-> 100000, description |-> "Gold tier.",
       parameter_schema |-> "{\"type\":\"object\"}"],
      [enabled |-> FALSE, weight |-> 50, description |-> "",
       parameter_schema |-> "{\"type\":\"object\"}"] }

\* radiusAttribute: name, value list, op (default ":="), three flags
AttrPool ==
    { [name |-> "Reply-Message", value |-> <<"hello", "world">>, op |-> ":=",
       expand |-> FALSE, do_xlat |-> FALSE, is_json |-> FALSE],
      [name |-> "Framed-Pool", value |-> <<"pool_%u">>, op |-> "+=",
       expand |-> TRUE, do_xlat |-> TRUE, is_json |-> FALSE] }

\* depends, reply and control
ListSettings ==
    { l \in SeqsUpTo(DependsPool, MaxItems) \X SeqsUpTo(AttrPool, MaxItems)
                \X SeqsUpTo(AttrPool, MaxItems) :
        Len(l[1]) + Len(l[2]) + Len(l[3]) <= MaxItems }

Configs ==
    { [operator_id |-> o, profile_id |-> p, enabled |-> s.enabled,
       weight |-> s.weight, depends |-> l[1], description |-> s.description,
       parameter_schema |-> s.parameter_schema, reply |-> l[2], control |-> l[3]] :
        o \in OperatorIds, p \in ProfileIds, s \in ScalarSettings,
        l \in ListSettings }

\* A configuration is a function from the attributes it sets to their values
Setting(c, key, default) == IF key \in DOMAIN c THEN c[key] ELSE default

\* one reply or control entry of the configuration, the schema's Default
\* taken for what the entry does not set
radiusAttribute(a) ==
    [name |-> a.name, value |-> a.value, op |-> Setting(a, "op", ":="),
     expand |-> Setting(a, "expand", FALSE),
     do_xlat |-> Setting(a, "do_xlat", FALSE),
     is_json |-> Setting(a, "is_json", FALSE)]

\* The resource data a create starts from: the planned values (the schema's
\* Default for an attribute the configuration does not set), no identity
NewResourceData(c) ==
    LET attrs(list) == [i \in 1..Len(list) |-> radiusAttribute(list[i])]
    IN  [id |-> "", operator_id |-> c.operator_id, profile_id |-> c.profile_id,
         enabled |-> Setting(c, "enabled", TRUE),
         weight |-> Setting(c, "weight", 100),
         depends |-> Setting(c, "depends", <<>>),
         description |-> Setting(c, "description", ""),
         parameter_schema |-> Setting(c, "parameter_schema", ""),
         reply |-> attrs(Setting(c, "reply", <<>>)),
         control |-> attrs(Setting(c, "control", <<>>))]

---------------------------------------------------------------------------
(* Errors: nil, or an error with its text *)

NoErr == [nil |-> TRUE, text |-> <<>>]
Error(text) == [nil |-> FALSE, text |-> text]

Digits(n) ==
    <<ToString(n \div 100), ToString((n \div 10) % 10), ToString(n % 10)>>

---------------------------------------------------------------------------
(* The JSON contract: RadiusAttribute, RadiusProfileAttributes,            *)
(* RadiusProfile and their encoding/json behaviour                         *)

\* A JSON object is a function from the keys present to their values
EmptyObject == [k \in {} |-> Nothing]

Field(doc, key, zero) == IF key \in DOMAIN doc THEN doc[key] ELSE zero

NilSchema == [isNil |-> TRUE]

ZeroProfile ==
    [ID |-> "", State |-> "", Weight |-> 0, Depends |-> <<>>,
     Description |-> "", Radius |-> [Reply |-> <<>>, Control |-> <<>>],
     Schema |-> NilSchema]

\* json.Marshal of a RadiusAttribute: op is omitempty
MarshalAttribute(a) ==
    [name |-> a.Name, value |-> a.Value, expand |-> a.Expand,
     do_xlat |-> a.DoXlat, is_json |-> a.IsJson]
    @@ (IF a.OP # "" THEN [op |-> a.OP] ELSE EmptyObject)

\* json.Marshal of a RadiusProfileAttributes: both lists are omitempty
MarshalAttributes(pa) ==
    (IF Len(pa.Reply) > 0
        THEN [reply |-> [i \in 1..Len(pa.Reply) |-> MarshalAttribute(pa.Reply[i])]]
        ELSE EmptyObject)
    @@ (IF Len(pa.Control) > 0
        THEN [control |-> [i \in 1..Len(pa.Control) |-> MarshalAttribute(pa.Control[i])]]
        ELSE EmptyObject)

\* MarshalProfile with the state written under the key "status"
MarshalProfile_StateAsStatus(itm) ==
    [id |-> itm.ID, status |-> itm.State, weight |-> itm.Weight,
     radius |-> MarshalAttributes(itm.Radius)]
    @@ (IF Len(itm.Depends) > 0 THEN [depends |-> itm.Depends] ELSE EmptyObject)
    @@ (IF itm.Description # "" THEN [description |-> itm.Description] ELSE EmptyObject)
    @@ (IF ~itm.Schema.isNil THEN [parameter_schema |-> itm.Schema] ELSE EmptyObject)

\* json.Marshal of a RadiusProfile: depends, description and
\* parameter_schema are omitempty
MarshalProfile(itm) ==
    [id |-> itm.ID, state |-> itm.State, weight |-> itm.Weight,
     radius |-> MarshalAttributes(itm.Radius)]
    @@ (IF Len(itm.Depends) > 0 THEN [depends |-> itm.Depends] ELSE EmptyObject)
    @@ (IF itm.Description # "" THEN [description |-> itm.Description] ELSE EmptyObject)
    @@ (IF ~itm.Schema.isNil THEN [parameter_schema |-> itm.Schema] ELSE EmptyObject)

\* json.Unmarshal into a RadiusAttribute: a key that is absent leaves the zero value
UnmarshalAttribute(doc) ==
    [Name |-> Field(doc, "name", ""), Value |-> Field(doc, "value", <<>>),
     OP |-> Field(doc, "op", ""), Expand |-> Field(doc, "expand", FALSE),
     DoXlat |-> Field(doc, "do_xlat", FALSE), IsJson |-> Field(doc, "is_json", FALSE)]

UnmarshalAttributes(doc) ==
    LET r == Field(doc, "reply", <<>>)
        c == Field(doc, "control", <<>>)
    IN [Reply |-> [i \in 1..Len(r) |-> UnmarshalAttribute(r[i])],
        Control |-> [i \in 1..Len(c) |-> UnmarshalAttribute(c[i])]]

\* json.Unmarshal into a fresh RadiusProfile
UnmarshalProfile(doc) ==
    [ID |-> Field(doc, "id", ""), State |-> Field(doc, "state", ""),
     Weight |-> Field(doc, "weight", 0), Depends |-> Field(doc, "depends", <<>>),
     Description |-> Field(doc, "description", ""),
     Radius |-> UnmarshalAttributes(Field(doc, "radius", EmptyObject)),
     Schema |-> Field(doc, "parameter_schema", NilSchema)]

\* A response body: a JSON object, or text that is no JSON
JsonBody(doc) == [parsable |-> TRUE, doc |-> doc]
GarbageBody == [parsable |-> FALSE, doc |-> EmptyObject]
ErrorBody == JsonBody([error |-> "internal error"])

---------------------------------------------------------------------------
(* The remote API and the HTTP transport *)

ProfilePath(operator_id, id) == "/operator/" \o operator_id \o "/profile/" \o id

NoRemote == [present |-> FALSE, path |-> "", doc |-> EmptyObject]

\* What can go wrong with one request
Faults == {"none", "refused", "refused4040", "http500", "garbage"}

ErrRefused == <<"dial tcp 10.0.0.1:", "8", "0", ": connect: connection refused">>
ErrRefused4040 == <<"dial tcp 127.0.0.1:", "4", "0", "4", "0", ": connect: connection refused">>
ErrInvalidJSON == <<"invalid character '<' looking for beginning of value">>

Found(srv, path) == srv.present /\ srv.path = path

\* api.sendRequest(method, path, body): status, data and transport error
sendRequest(method, path, body, srv, fault) ==
    CASE fault = "refused" ->
            [status |-> 0, data |-> GarbageBody, err |-> Error(ErrRefused)]
      [] fault = "refused4040" ->
            [status |-> 0, data |-> GarbageBody, err |-> Error(ErrRefused4040)]
      [] fault = "http500" ->
            [status |-> 500, data |-> ErrorBody, err |-> NoErr]
      [] fault = "garbage" ->
            [status |-> 200, data |-> GarbageBody, err |-> NoErr]
      [] OTHER ->
            IF Found(srv, path)
                THEN [status |-> 200,
                      data |-> IF method = "GET" THEN JsonBody(srv.doc)
                                                 ELSE JsonBody(EmptyObject),
                      err |-> NoErr]
                ELSE [status |-> 404, data |-> GarbageBody, err |-> NoErr]

\* The remote API after the request: a DELETE that reached the object removed it
ServerAfter(method, path, srv, fault) ==
    IF fault = "none" /\ method = "DELETE" /\ Found(srv, path) THEN NoRemote ELSE srv

Request(method, path) == [method |-> method, path |-> path]

NoResp == [status |-> 0, data |-> GarbageBody, err |-> NoErr]

---------------------------------------------------------------------------
(* The profile resource: the handlers resourceProfile() registers *)

\* the attribute records buildProfileObject makes of one group ("reply" or
\* "control") of the resource data
buildAttributes(list) ==
    [i \in 1..Len(list) |->
        [Name |-> list[i].name, OP |-> list[i].op,
         Expand |-> list[i].expand, DoXlat |-> list[i].do_xlat,
         IsJson |-> list[i].is_json,
         Value |-> [j \in 1..Len(list[i].value) |-> list[i].value[j]]]]

\* buildProfileObject with the two groups assigned the wrong way round
buildProfileObject_SwapsGroups(dd) ==
    LET itm == [ID |-> dd.profile_id,
                State |-> IF dd.enabled THEN "enabled" ELSE "disabled",
                Weight |-> dd.weight,
                Depends |-> [i \in 1..Len(dd.depends) |-> dd.depends[i]],
                Description |-> dd.description,
                Radius |-> [Reply |-> buildAttributes(dd.control),
                            Control |-> buildAttributes(dd.reply)],
                Schema |-> NilSchema]
    IN [itm |-> itm,
        d |-> [dd EXCEPT !.id = dd.operator_id \o "/" \o itm.ID],
        err |-> NoErr]

\* buildProfileObject: the payload, and the resource data with its Id set
buildProfileObject(dd) ==
    LET itm == [ID |-> dd.profile_id,
                State |-> IF dd.enabled THEN "enabled" ELSE "disabled",
                Weight |-> dd.weight,
                Depends |-> [i \in 1..Len(dd.depends) |-> dd.depends[i]],
                Description |-> dd.description,
                Radius |-> [Reply |-> buildAttributes(dd.reply),
                            Control |-> buildAttributes(dd.control)],
                Schema |-> NilSchema]
    IN [itm |-> itm,
        d |-> [dd EXCEPT !.id = dd.operator_id \o "/" \o itm.ID],
        err |-> NoErr]

\* getProfile sending its request a second time when the first one failed in
\* transport
getProfile_RetriesOnFailure(operator_id, id, srv, fault) ==
    LET path == ProfilePath(operator_id, id)
        first == sendRequest("GET", path, "", srv, fault)
        resp == IF first.err.nil THEN first
                                 ELSE sendRequest("GET", path, "", srv, fault)
        base == [isNil |-> TRUE, obj |-> ZeroProfile, err |-> NoErr,
                 resp |-> resp,
                 log |-> IF first.err.nil
                            THEN <<Request("GET", path)>>
                            ELSE <<Request("GET", path), Request("GET", path)>>]
    IN  IF ~resp.err.nil THEN [base EXCEPT !.err = resp.err]
        ELSE IF resp.status = 404 THEN base
        ELSE IF ~resp.data.parsable THEN [base EXCEPT !.err = Error(ErrInvalidJSON)]
        ELSE [base EXCEPT !.isNil = FALSE, !.obj = UnmarshalProfile(resp.data.doc)]

\* getProfile without its check for status 404
getProfile_NoNotFoundCheck(operator_id, id, srv, fault) ==
    LET path == ProfilePath(operator_id, id)
        resp == sendRequest("GET", path, "", srv, fault)
        base == [isNil |-> TRUE, obj |-> ZeroProfile, err |-> NoErr,
                 resp |-> resp, log |-> <<Request("GET", path)>>]
    IN  IF ~resp.err.nil THEN [base EXCEPT !.err = resp.err]
        ELSE IF ~resp.data.parsable THEN [base EXCEPT !.err = Error(ErrInvalidJSON)]
        ELSE [base EXCEPT !.isNil = FALSE, !.obj = UnmarshalProfile(resp.data.doc)]

\* getProfile: the object (nil when gone), the error, and the request it sent
getProfile(operator_id, id, srv, fault) ==
    LET path == ProfilePath(operator_id, id)
        resp == sendRequest("GET", path, "", srv, fault)
        base == [isNil |-> TRUE, obj |-> ZeroProfile, err |-> NoErr,
                 resp |-> resp, log |-> <<Request("GET", path)>>]
    IN  IF ~resp.err.nil THEN [base EXCEPT !.err = resp.err]
        ELSE IF resp.status = 404 THEN base
        ELSE IF ~resp.data.parsable THEN [base EXCEPT !.err = Error(ErrInvalidJSON)]
        ELSE [base EXCEPT !.isNil = FALSE, !.obj = UnmarshalProfile(resp.data.doc)]

\* what resourceProfileRead does with the answer of getProfile
setProfileState(dd, got) ==
    LET obj == got.obj
        attrs(list) ==
            [i \in 1..Len(list) |->
                [name |-> list[i].Name, op |-> list[i].OP,
                 expand |-> list[i].Expand, do_xlat |-> list[i].DoXlat,
                 is_json |-> list[i].IsJson,
                 value |-> [ii \in 1..Len(list[i].Value) |-> list[i].Value[ii]]]]
        out == [d |-> dd, err |-> NoErr, resp |-> got.resp, log |-> got.log]
    IN  IF ~got.err.nil THEN [out EXCEPT !.err = got.err]
        ELSE IF got.isNil THEN [out EXCEPT !.d = [dd EXCEPT !.id = ""]]
        ELSE [out EXCEPT !.d =
                [dd EXCEPT !.profile_id = obj.ID,
                           !.enabled = (obj.State = "enabled"),
                           !.weight = obj.Weight,
                           !.description = obj.Description,
                           !.depends = [i \in 1..Len(obj.Depends) |-> obj.Depends[i]],
                           !.reply = attrs(obj.Radius.Reply),
                           !.control = attrs(obj.Radius.Control)]]

\* resourceProfileRead asking for the tracked identity instead of profile_id
resourceProfileRead_ByTrackedId(dd, srv, fault) ==
    setProfileState(dd, getProfile(dd.operator_id, dd.id, srv, fault))

\* resourceProfileRead: the resource data afterwards, and the error
resourceProfileRead(dd, srv, fault) ==
    setProfileState(dd, getProfile(dd.operator_id, dd.profile_id, srv, fault))

\* resourceProfileCreate: build the object, then read ("do add" is a comment)
resourceProfileCreate(dd, srv, fault) ==
    LET built == buildProfileObject(dd)
    IN  IF ~built.err.nil
            THEN [d |-> dd, err |-> built.err, resp |-> NoResp, log |-> <<>>]
            ELSE resourceProfileRead(built.d, srv, fault)

\* resourceProfileUpdate: returns nil
resourceProfileUpdate(dd, srv, fault) ==
    [d |-> dd, err |-> NoErr, resp |-> NoResp, log |-> <<>>]

\* resourceProfileDelete: returns nil
resourceProfileDelete(dd, srv, fault) ==
    [d |-> dd, err |-> NoErr, resp |-> NoResp, log |-> <<>>]

---------------------------------------------------------------------------
(* The earlier handlers of the profile resource, built on the REST object  *)
(* model (APIObject)                                                       *)

ApiErrorText(status, body) ==
    <<"unexpected response code '">> \o Digits(status) \o <<"': ">>
        \o (IF body.parsable THEN <<"{...}">> ELSE <<"<html>">>)

\* makeAPIObject: the remote object of this profile
makeAPIObject(dd) ==
    [id |-> dd.profile_id, path |-> ProfilePath(dd.operator_id, dd.profile_id),
     err |-> NoErr]

\* obj.readObject(): 404 is the absent outcome, not an error
readObject(obj, srv, fault) ==
    LET resp == sendRequest("GET", obj.path, "", srv, fault)
        base == [err |-> NoErr, absent |-> FALSE, resp |-> resp,
                 log |-> <<Request("GET", obj.path)>>]
    IN  IF ~resp.err.nil THEN [base EXCEPT !.err = resp.err]
        ELSE IF resp.status = 404 THEN [base EXCEPT !.absent = TRUE]
        ELSE IF resp.status < 200 \/ resp.status >= 300
            THEN [base EXCEPT !.err = Error(ApiErrorText(resp.status, resp.data))]
        ELSE IF ~resp.data.parsable THEN [base EXCEPT !.err = Error(ErrInvalidJSON)]
        ELSE base

\* obj.deleteObject(): 404 is success
deleteObject(obj, srv, fault) ==
    LET resp == sendRequest("DELETE", obj.path, "", srv, fault)
        base == [err |-> NoErr, resp |-> resp,
                 log |-> <<Request("DELETE", obj.path)>>]
    IN  IF ~resp.err.nil THEN [base EXCEPT !.err = resp.err]
        ELSE IF resp.status = 404 THEN base
        ELSE IF resp.status < 200 \/ resp.status >= 300
            THEN [base EXCEPT !.err = Error(ApiErrorText(resp.status, resp.data))]
        ELSE base

\* resourceProfileDelete of resource_profile.go: an error whose text
\* contains "404" counts as success
resourceProfileDeleteAPIObject(dd, srv, fault) ==
    LET obj == makeAPIObject(dd)
        del == deleteObject(obj, srv, fault)
    IN  IF ~obj.err.nil
            THEN [d |-> dd, err |-> obj.err, resp |-> NoResp, log |-> <<>>]
            ELSE [d |-> dd,
                  err |-> IF ~del.err.nil /\ Contains(del.err.text, <<"4", "0", "4">>)
                             THEN NoErr ELSE del.err,
                  resp |-> del.resp, log |-> del.log]

\* resourceProfileExists of resource_profile.go: exists iff the read gave no error
resourceProfileExists(dd, srv, fault) ==
    LET obj == makeAPIObject(dd)
        rd == readObject(obj, srv, fault)
    IN  IF ~obj.err.nil
            THEN [exists |-> FALSE, err |-> obj.err, resp |-> NoResp, log |-> <<>>]
            ELSE [exists |-> rd.err.nil, err |-> rd.err, resp |-> rd.resp,
                  log |-> rd.log]

---------------------------------------------------------------------------
(* Schema validation: the ValidateFunc of every attribute of the schema *)

Digit == {"0", "1", "2", "3", "4", "5", "6", "7", "8", "9"}
Lower ==
    {"a", "b", "c", "d", "e", "f", "g", "h", "i", "j", "k", "l", "m",
     "n", "o", "p", "q", "r", "s", "t", "u", "v", "w", "x", "y", "z"}
Upper ==
    {"A", "B", "C", "D", "E", "F", "G", "H", "I", "J", "K", "L", "M",
     "N", "O", "P", "Q", "R", "S", "T", "U", "V", "W", "X", "Y", "Z"}
Space == {" ", "\t", "\n"}

LongestId == "aaaaaaaaaaaaaaaaaaaaaaaaaaaaaaaa"
TooLongId == "aaaaaaaaaaaaaaaaaaaaaaaaaaaaaaaaa"

\* the characters of the strings the configurations are made of
Chars(s) ==
    CASE s = "" -> <<>>
      [] s = "abc" -> <<"a", "b", "c">>
      [] s = "ab" -> <<"a", "b">>
      [] s = "Abc" -> <<"A", "b", "c">>
      [] s = "a-c" -> <<"a", "-", "c">>
      [] s = "a_9" -> <<"a", "_", "9">>
      [] s = LongestId -> [i \in 1..32 |-> "a"]
      [] s = TooLongId -> [i \in 1..33 |-> "a"]
      [] s = "op_1" -> <<"o", "p", "_", "1">>
      [] s = " " -> <<" ">>
      [] s = "dep_a" -> <<"d", "e", "p", "_", "a">>
      [] s = "dep_b" -> <<"d", "e", "p", "_", "b">>
      [] s = "Dep" -> <<"D", "e", "p">>
      [] s = "Gold tier." -> <<"G", "o", "l", "d", " ", "t", "i", "e", "r", ".">>
      [] s = "Gold tier!" -> <<"G", "o", "l", "d", " ", "t", "i", "e", "r", "!">>
      [] s = "Reply-Message" ->
            <<"R", "e", "p", "l", "y", "-", "M", "e", "s", "s", "a", "g", "e">>
      [] s = "Framed-Pool" ->
            <<"F", "r", "a", "m", "e", "d", "-", "P", "o", "o", "l">>

\* validation.StringIsNotWhiteSpace
StringIsNotWhiteSpace(v) == \E i \in 1..Len(Chars(v)) : Chars(v)[i] \notin Space

\* validation.StringMatch of ^[0-9a-z_]{3,32}$
StringMatchId(v) ==
    LET cs == Chars(v)
    IN  /\ Len(cs) >= 3
        /\ Len(cs) <= 32
        /\ \A i \in 1..Len(cs) : cs[i] \in Digit \cup Lower \cup {"_"}

\* validation.StringMatch of ^[0-9a-zA-Z][0-9a-zA-Z\,\.\_\-\' ]{1,512}[0-9a-zA-Z\.]$
StringMatchDescription(v) ==
    LET cs == Chars(v)
        alnum == Digit \cup Lower \cup Upper
    IN  /\ Len(cs) >= 3
        /\ Len(cs) <= 514
        /\ cs[1] \in alnum
        /\ \A i \in 2..(Len(cs) - 1) : cs[i] \in alnum \cup {",", ".", "_", "-", "'", " "}
        /\ cs[Len(cs)] \in alnum \cup {"."}

\* validation.StringInSlice of the seven operators of radiusAttribute
radiusOps == {"=", ":=", "+=", "|=", "|:=", "|+=", "|--"}
StringInSlice(valid, v) == v \in valid

\* validation.IntBetween
IntBetween(min, max, v) == v >= min /\ v <= max

\* validation.StringIsJSON over the texts the configurations are made of
StringIsJSON(v) == v \in {"{\"type\":\"object\"}"}

\* the attributes of the schema that carry a ValidateFunc, in schema order
validatedAttributes ==
    <<"operator_id", "profile_id", "weight", "depends", "description",
      "parameter_schema", "reply", "control">>

\* the ValidateFunc of the entries of reply and control: name and, when the
\* entry sets it, op
rejectsGroup(list) ==
    \E i \in 1..Len(list) :
        \/ ~StringIsNotWhiteSpace(list[i].name)
        \/ "op" \in DOMAIN list[i] /\ ~StringInSlice(radiusOps, list[i].op)

\* the ValidateFunc of attribute a rejects what configuration c sets for it;
\* an optional attribute that is not set (or is the empty string) is not
\* validated
rejects(c, a) ==
    CASE a = "operator_id" -> ~StringIsNotWhiteSpace(c.operator_id)
      [] a = "profile_id" -> ~StringMatchId(c.profile_id)
      [] a = "weight" ->
            "weight" \in DOMAIN c /\ ~IntBetween(1, 100000, c.weight)
      [] a = "depends" ->
            \E i \in 1..Len(Setting(c, "depends", <<>>)) :
                ~StringMatchId(c.depends[i])
      [] a = "description" ->
            /\ Setting(c, "description", "") # ""
            /\ ~StringMatchDescription(c.description)
      [] a = "parameter_schema" ->
            /\ Setting(c, "parameter_schema", "") # ""
            /\ ~StringIsJSON(c.parameter_schema)
      [] a = "reply" -> rejectsGroup(Setting(c, "reply", <<>>))
      [] a = "control" -> rejectsGroup(Setting(c, "control", <<>>))

\* validation of a configuration with the ValidateFunc of weight left out
validateResource_WeightUnchecked(c) ==
    LET test(a) == a # "weight" /\ rejects(c, a)
        rejected == SelectSeq(validatedAttributes, test)
    IN  IF rejected = <<>> THEN NoErr
                           ELSE Error(<<"invalid value for ">> \o rejected)

\* validation of a configuration against the schema of the resource: nil, or
\* the error that names the attributes rejected
validateResource(c) ==
    LET test(a) == rejects(c, a)
        rejected == SelectSeq(validatedAttributes, test)
    IN  IF rejected = <<>> THEN NoErr
                           ELSE Error(<<"invalid value for ">> \o rejected)

---------------------------------------------------------------------------
(* The provider: its schema, configureProvider, and the API client *)

\* schema.EnvDefaultFunc: the value of the environment variable when it is
\* set and not empty, else the default
EnvDefaultFunc(env, key, dv) ==
    IF key \in DOMAIN env /\ env[key] # "" THEN env[key] ELSE dv

\* the DefaultFunc of uri, read from a variable of another name
uriDefault_OtherVariable(env) == EnvDefaultFunc(env, "REST_API_URL", "")

\* the DefaultFunc of uri
uriDefault(env) == EnvDefaultFunc(env, "REST_API_URI", "")

\* the pieces url.Parse makes of the URIs the configurations are made of
ParseURI(uri) ==
    CASE uri = "http://127.0.0.1:8085/" ->
            [scheme |-> "http", host |-> "127.0.0.1:8085", path |-> "/"]
      [] uri = "http://foo.bar/baz" ->
            [scheme |-> "http", host |-> "foo.bar", path |-> "/baz"]
      [] uri = "https://token.example/oauth" ->
            [scheme |-> "https", host |-> "token.example", path |-> "/oauth"]
      [] uri = "foo.bar/baz" ->
            [scheme |-> "", host |-> "", path |-> "foo.bar/baz"]
      [] uri = "" -> [scheme |-> "", host |-> "", path |-> ""]

IsAbsoluteURI(uri) == ParseURI(uri).scheme # "" /\ ParseURI(uri).host # ""

\* expandStringSet: the scopes of the block as strings, in order
expandStringSet(list) == [i \in 1..Len(list) |-> list[i]]

\* the apiClientOpt configureProvider fills before it looks at the OAuth block
apiClientOpt(raw, env) ==
    [uri |-> Setting(raw, "uri", uriDefault(env)),
     insecure |-> Setting(raw, "insecure", EnvDefaultFunc(env, "REST_API_INSECURE", "") = "true"),
     timeout |-> Setting(raw, "timeout", 0),
     rateLimit |-> Setting(raw, "rate_limit", "math.MaxFloat64"),
     debug |-> Setting(raw, "debug", EnvDefaultFunc(env, "REST_API_DEBUG", "") = "true"),
     oauthClientID |-> "", oauthClientSecret |-> "", oauthTokenURL |-> "",
     oauthScopes |-> <<>>]

\* NewAPIClient: the client of a configuration whose base URI is not empty
\* and absolute, else an error; it sends nothing.  The client authenticates
\* its requests when the options carry the OAuth client id, secret and
\* token endpoint.
NewAPIClient(opt) ==
    IF opt.uri = "" \/ ~IsAbsoluteURI(opt.uri)
        THEN [isNil |-> TRUE, opt |-> opt, oauth |-> FALSE,
              err |-> Error(<<"uri must be set to an absolute URI">>),
              requests |-> <<>>]
        ELSE [isNil |-> FALSE, opt |-> opt,
              oauth |-> /\ opt.oauthClientID # ""
                        /\ opt.oauthClientSecret # ""
                        /\ opt.oauthTokenURL # "",
              err |-> NoErr,
              requests |-> <<>>]

\* configureProvider asking the token endpoint for a token before it returns
configureProvider_GrantsToken(raw, env) ==
    LET opt == apiClientOpt(raw, env)
        block == Setting(raw, "oauth_client_credentials", <<>>)
        ok == Len(block) > 0
        oauthConfig == IF ok THEN block[1] ELSE EmptyObject
        full == IF ok
                  THEN [opt EXCEPT
                        !.oauthClientID = Setting(oauthConfig, "oauth_client_id", ""),
                        !.oauthClientSecret = Setting(oauthConfig, "oauth_client_secret", ""),
                        !.oauthTokenURL = Setting(oauthConfig, "oauth_token_endpoint", ""),
                        !.oauthScopes = expandStringSet(Setting(oauthConfig, "oauth_scopes", <<>>))]
                  ELSE opt
        client == NewAPIClient(full)
    IN  IF ok THEN [client EXCEPT !.requests = <<Request("POST", full.oauthTokenURL)>>]
              ELSE client

\* configureProvider: the client (nil on error), the error, and the requests
\* sent while configuring
configureProvider(raw, env) ==
    LET opt == apiClientOpt(raw, env)
        block == Setting(raw, "oauth_client_credentials", <<>>)
        ok == Len(block) > 0
        oauthConfig == IF ok THEN block[1] ELSE EmptyObject
        full == IF ok
                  THEN [opt EXCEPT
                        !.oauthClientID = Setting(oauthConfig, "oauth_client_id", ""),
                        !.oauthClientSecret = Setting(oauthConfig, "oauth_client_secret", ""),
                        !.oauthTokenURL = Setting(oauthConfig, "oauth_token_endpoint", ""),
                        !.oauthScopes = expandStringSet(Setting(oauthConfig, "oauth_scopes", <<>>))]
                  ELSE opt
    IN  NewAPIClient(full)

\* the provider before Configure is called with raw in the environment env,
\* the API and the token endpoint reachable or not
NewProvider(raw, env, reachable) ==
    [raw |-> raw, env |-> env, reachable |-> reachable, configured |-> FALSE,
     client |-> NewAPIClient(apiClientOpt(EmptyObject, EmptyObject))]

\* the provider the resource handlers run under
TestProvider ==
    [NewProvider([uri |-> "http://127.0.0.1:8085/"], EmptyObject, TRUE)
        EXCEPT !.configured = TRUE,
               !.client = configureProvider([uri |-> "http://127.0.0.1:8085/"], EmptyObject)]

---------------------------------------------------------------------------
(* The token manager of the API client: get_token, its cache, and the      *)
(* grant request to the token endpoint                                     *)

\* the callers of get_token that run side by side
NumCallers == 2
\* the clock stops here
MaxTime == 3
\* the most grant requests one run sends
MaxGrants == 3

Callers == 1..NumCallers

\* expires_in of a granted token
TokenLifetimes == {1, 2}

NoToken == [present |-> FALSE, id |-> 0, expiry |-> 0]
NoResult == [kind |-> "none", id |-> 0, expiry |-> 0]
AuthError == [kind |-> "AuthError", id |-> 0, expiry |-> 0]
TokenResult(token) == [kind |-> "token", id |-> token.id, expiry |-> token.expiry]

\* the token manager of a client, with OAuth configured or not: nothing
\* cached, no grant request in flight, every caller idle
NewTokenManager(oauth) ==
    [oauth |-> oauth, now |-> 0, cache |-> NoToken, inflight |-> 0, grants |-> 0,
     callers |-> [c \in Callers |-> [pc |-> "idle", result |-> NoResult]]]

\* a token is cached and its expiry is after now
CacheValid(t) == t.cache.present /\ t.cache.expiry > t.now

\* a caller that finds no valid token never sees the grant request of another
FlightInProgress_Unseen(t) == FALSE

\* a grant request is on its way: a caller that finds no valid token waits
\* for its result instead of sending another
FlightInProgress(t) == t.inflight > 0

\* get_token of caller c up to the point where it returns or has to wait
get_token(t, c) ==
    IF ~t.oauth
        THEN [t EXCEPT !.callers[c] = [pc |-> "done", result |-> NoResult]]
    ELSE IF CacheValid(t)
        THEN [t EXCEPT !.callers[c] = [pc |-> "done", result |-> TokenResult(t.cache)]]
    ELSE IF FlightInProgress(t)
        THEN [t EXCEPT !.callers[c].pc = "waiting"]
    ELSE [t EXCEPT !.callers[c].pc = "waiting",
                   !.inflight = t.inflight + 1,
                   !.grants = t.grants + 1]

\* the answer of the token endpoint arrives: a token that lives for
\* expires_in, or a failure (expires_in = 0); the result is cached and handed
\* to every caller that waits
grantAnswered(t, expires_in) ==
    LET ok == expires_in > 0
        token == [present |-> TRUE, id |-> t.grants, expiry |-> t.now + expires_in]
        result == IF ok THEN TokenResult(token) ELSE AuthError
    IN  [t EXCEPT !.inflight = t.inflight - 1,
                  !.cache = IF ok THEN token ELSE t.cache,
                  !.callers = [c \in Callers |->
                                IF t.callers[c].pc = "waiting"
                                    THEN [pc |-> "done", result |-> result]
                                    ELSE t.callers[c]]]

---------------------------------------------------------------------------
(* The state machine *)

Returned(op, r, exists) ==
    [op |-> op, err |-> r.err, exists |-> exists, resp |-> r.resp]

Init ==
    /\ cfg \in Configs
    /\ d = NewResourceData(cfg)
    /\ remote = NoRemote
    /\ ret = [op |-> "none", err |-> NoErr, exists |-> FALSE, resp |-> NoResp]
    /\ log = <<>>
    /\ provider = TestProvider
    /\ tokens = NewTokenManager(FALSE)

\* Create is called for a resource that has no identity yet, with the plan
Create ==
    /\ d.id = ""
    /\ \E fault \in Faults :
        LET r == resourceProfileCreate(NewResourceData(cfg), remote, fault)
        IN  /\ d' = r.d
            /\ ret' = Returned("create", r, FALSE)
            /\ log' = r.log
    /\ UNCHANGED <<cfg, remote, providerVars>>

\* Read, Update, Delete and Exists are called for a resource that has an identity
Read ==
    /\ d.id # ""
    /\ \E fault \in Faults :
        LET r == resourceProfileRead(d, remote, fault)
        IN  /\ d' = r.d
            /\ ret' = Returned("read", r, FALSE)
            /\ log' = r.log
    /\ UNCHANGED <<cfg, remote, providerVars>>

Update ==
    /\ d.id # ""
    /\ \E fault \in Faults :
        LET r == resourceProfileUpdate(d, remote, fault)
        IN  /\ d' = r.d
            /\ ret' = Returned("update", r, FALSE)
            /\ log' = r.log
    /\ UNCHANGED <<cfg, remote, providerVars>>

Delete ==
    /\ d.id # ""
    /\ \E fault \in Faults :
        LET r == resourceProfileDelete(d, remote, fault)
        IN  /\ d' = r.d
            /\ ret' = Returned("delete", r, FALSE)
            /\ log' = r.log
    /\ UNCHANGED <<cfg, remote, providerVars>>

DeleteAPIObject ==
    /\ d.id # ""
    /\ \E fault \in Faults :
        LET r == resourceProfileDeleteAPIObject(d, remote, fault)
        IN  /\ d' = r.d
            /\ ret' = Returned("delete_apiobject", r, FALSE)
            /\ log' = r.log
            /\ remote' = IF Len(r.log) > 0
                            THEN ServerAfter(r.log[1].method, r.log[1].path, remote, fault)
                            ELSE remote
    /\ UNCHANGED <<cfg, providerVars>>

Exists ==
    /\ d.id # ""
    /\ \E fault \in Faults :
        LET r == resourceProfileExists(d, remote, fault)
        IN  /\ ret' = Returned("exists", r, r.exists)
            /\ log' = r.log
    /\ UNCHANGED <<cfg, d, remote, providerVars>>

\* The remote API gets the profile out of band: the payload
\* buildProfileObject makes of the configuration, stored at the profile's path
RemoteStore ==
    /\ remote' = [present |-> TRUE,
                  path |-> ProfilePath(cfg.operator_id, cfg.profile_id),
                  doc |-> MarshalProfile(buildProfileObject(NewResourceData(cfg)).itm)]
    /\ UNCHANGED <<cfg, d, ret, log, providerVars>>

\* The remote API loses the profile out of band
RemoteRemove ==
    /\ remote.present
    /\ remote' = NoRemote
    /\ UNCHANGED <<cfg, d, ret, log, providerVars>>

Next ==
    \/ Create
    \/ Read
    \/ Update
    \/ Delete
    \/ DeleteAPIObject
    \/ Exists
    \/ RemoteStore
    \/ RemoteRemove

Spec == Init /\ [][Next]_vars

---------------------------------------------------------------------------
(* What the claims speak of *)

Is2xx(status) == status >= 200 /\ status < 300

\* the last handler sent exactly one request, and it was answered 404
AnsweredNotFound == Len(log) = 1 /\ ret.resp.err.nil /\ ret.resp.status = 404

\* the last handler sent exactly one request, and its answer was a parsable 2xx
AnsweredFound ==
    /\ Len(log) = 1
    /\ ret.resp.err.nil
    /\ Is2xx(ret.resp.status)
    /\ ret.resp.data.parsable

\* a read's request ended in neither a usable 2xx nor a 404
FailedOutcome(resp) ==
    \/ ~resp.err.nil
    \/ ~(Is2xx(resp.status) \/ resp.status = 404)
    \/ (Is2xx(resp.status) /\ ~resp.data.parsable)

CompositeId(c) == c.operator_id \o "/" \o c.profile_id

\* the payload buildProfileObject makes of the configuration, serialized
ConfiguredPayload == MarshalProfile(buildProfileObject(NewResourceData(cfg)).itm)

TrackedFields ==
    {"enabled", "weight", "depends", "description", "parameter_schema",
     "reply", "control"}

---------------------------------------------------------------------------
(* C1: a profile read (resourceProfileRead, also as the last step of       *)
(* create) whose GET is answered 404 without a transport error returns no  *)
(* error and leaves the tracked identity empty.                            *)
C1_ReadNotFoundClearsIdentity ==
    (ret.op \in {"read", "create"} /\ AnsweredNotFound /\ log[1].method = "GET")
        => (ret.err.nil /\ d.id = "")

C1_Witness ==
    /\ ret.op = "read"
    /\ AnsweredNotFound
    /\ ret.err.nil
    /\ d.id = ""

(* C2: a read whose request ends in a transport failure, an unparsable     *)
(* body or a non-2xx status other than 404 returns an error and leaves the *)
(* tracked identity and the tracked fields as they were.                   *)
C2_ReadFailureIsAnErrorAndKeepsState ==
    [][(Read /\ FailedOutcome(ret'.resp)) => (~ret'.err.nil /\ d' = d)]_vars

(* C3: delete issues exactly one request, a DELETE to the profile's path,  *)
(* and returns success when that request is answered 404.                  *)
C3_DeleteIssuesOneDeleteRequest ==
    ret.op = "delete" =>
        /\ Len(log) = 1
        /\ log[1].method = "DELETE"
        /\ log[1].path = ProfilePath(d.operator_id, d.profile_id)
        /\ (AnsweredNotFound => ret.err.nil)

(* C4: delete returns success only if its request was answered with a 2xx  *)
(* or a 404; every other outcome, a transport failure whose text contains  *)
(* "404" included, is an error.                                            *)
C4_DeleteSucceedsOnlyOn2xxOr404 ==
    (ret.op \in {"delete", "delete_apiobject"} /\ ret.err.nil) =>
        /\ Len(log) = 1
        /\ ret.resp.err.nil
        /\ (Is2xx(ret.resp.status) \/ ret.resp.status = 404)

(* C5: create sends a POST to /operator/{operator_id}/profile before the   *)
(* GET of the profile that follows it.                                     *)
C5_CreatePostsBeforeItReads ==
    ret.op = "create" =>
        /\ Len(log) >= 1
        /\ log[1].method = "POST"
        /\ log[1].path = "/operator/" \o cfg.operator_id \o "/profile"
        /\ \A i \in 1..Len(log) : log[i].method = "GET" => i > 1

(* C6: an update that returns no error has issued the update request       *)
(* (PUT or PATCH), with a read before it exactly when copy-keys are        *)
(* configured.                                                             *)
C6_UpdateIssuesTheUpdateRequest ==
    (ret.op = "update" /\ ret.err.nil) =>
        \E i \in 1..Len(log) : log[i].method \in {"PUT", "PATCH"}

C9_SameAttribute(rec, attr) ==
    /\ Field(rec, "name", "") = attr.name
    /\ Field(rec, "op", "") = attr.op
    /\ Field(rec, "expand", FALSE) = attr.expand
    /\ Field(rec, "do_xlat", FALSE) = attr.do_xlat
    /\ Field(rec, "is_json", FALSE) = attr.is_json
    /\ Len(Field(rec, "value", <<>>)) = Len(attr.value)
    /\ \A j \in 1..Len(attr.value) : rec.value[j] = attr.value[j]

C9_SameList(recs, attrs) ==
    /\ Len(recs) = Len(attrs)
    /\ \A i \in 1..Len(attrs) : C9_SameAttribute(recs[i], attrs[i])

(* C9: list order is kept both ways: the i-th reply (control) record of    *)
(* the serialized payload is made of the i-th configured reply (control)   *)
(* attribute and its j-th value of the j-th configured value, lengths      *)
(* equal; and after a read that found the object the i-th tracked reply,   *)
(* control and depends entry is the i-th one of the remote document.       *)
C9_ListOrderPreserved ==
    /\ C9_SameList(Field(ConfiguredPayload.radius, "reply", <<>>), cfg.reply)
    /\ C9_SameList(Field(ConfiguredPayload.radius, "control", <<>>), cfg.control)
    /\ (ret.op \in {"read", "create"} /\ ret.err.nil /\ AnsweredFound) =>
          LET doc == ret.resp.data.doc
              radius == Field(doc, "radius", EmptyObject)
              depends == Field(doc, "depends", <<>>)
          IN  /\ C9_SameList(Field(radius, "reply", <<>>), d.reply)
              /\ C9_SameList(Field(radius, "control", <<>>), d.control)
              /\ Len(d.depends) = Len(depends)
              /\ \A i \in 1..Len(depends) : d.depends[i] = depends[i]

C9_Witness ==
    /\ ret.op = "read"
    /\ ret.err.nil
    /\ AnsweredFound
    /\ Len(d.reply) = 2
    /\ d.reply[1].name # d.reply[2].name
    /\ Len(d.reply[1].value) = 2
    /\ d.reply[1].value[1] # d.reply[1].value[2]
    /\ Len(d.control) = 0

\* the requests of one read of the resource data dd
C10_ReadPath(dd, requests) ==
    /\ Len(requests) = 1
    /\ \A i \in 1..Len(requests) :
        /\ requests[i].method = "GET"
        /\ requests[i].path = "/operator/" \o dd.operator_id \o "/profile/" \o dd.profile_id
        /\ requests[i].path # "/operator/" \o dd.operator_id \o "/profile/" \o CompositeId(dd)

(* C10: create leaves the tracked identity operator_id/profile_id (or      *)
(* empty, when its read found nothing), the payload's id is profile_id     *)
(* alone, and every request of a read is a GET of                          *)
(* /operator/{operator_id}/profile/{profile_id}, the last component the    *)
(* profile_id and never the composite identifier.                          *)
C10_CompositeIdentityAndPath ==
    [][/\ Create =>
            /\ d'.id = CompositeId(cfg) \/ (d'.id = "" /\ ret'.resp.status = 404)
            /\ ret'.resp.status # 404 => d'.id = cfg.operator_id \o "/" \o cfg.profile_id
            /\ ConfiguredPayload.id = cfg.profile_id
            /\ C10_ReadPath(cfg, log')
       /\ Read => C10_ReadPath(d, log')]_vars

C10_Witness ==
    /\ ret.op = "read"
    /\ d.id = "op_1/abc"
    /\ Len(log) = 1
    /\ log[1] = [method |-> "GET", path |-> "/operator/op_1/profile/abc"]

(* C17: nothing is retried.  A read (the one a create ends with included)  *)
(* issues exactly one request, a GET of the profile path of the resource   *)
(* data it started with; when that request fails in transport, the         *)
(* handler returns that error and has sent nothing else.                   *)
C17_OneRequestPerReadNoRetry ==
    [][(Read \/ Create) =>
        LET dd == IF d.id = "" THEN NewResourceData(cfg) ELSE d
        IN  /\ Len(log') = 1
            /\ log'[1] = Request("GET", ProfilePath(dd.operator_id, dd.profile_id))
            /\ ~ret'.resp.err.nil =>
                    /\ ~ret'.err.nil
                    /\ ret'.err = ret'.resp.err]_vars

C17_Witness ==
    /\ ret.op = "read"
    /\ ~ret.resp.err.nil
    /\ ret.err = ret.resp.err
    /\ log = <<Request("GET", "/operator/op_1/profile/abc")>>

(* C18: whenever resourceProfileCreate returns no error, the profile       *)
(* exists on the remote API with the configured content, and the tracked   *)
(* identity is the non-empty composite operator_id/profile_id; create      *)
(* never returns success with an empty tracked identity.                   *)
C18_CreateSuccessMeansStored ==
    [][(Create /\ ret'.err.nil) =>
        /\ Found(remote', ProfilePath(cfg.operator_id, cfg.profile_id))
        /\ remote'.doc = ConfiguredPayload
        /\ d'.id # ""
        /\ d'.id = CompositeId(cfg)]_vars

(* C19: whenever resourceProfileDelete returns no error, the profile is    *)
(* absent from the remote API afterwards, so that the next read of the     *)
(* same identity is answered 404.                                          *)
C19_DeleteSuccessMeansAbsent ==
    [][((Delete \/ DeleteAPIObject) /\ ret'.err.nil) =>
        LET path == ProfilePath(cfg.operator_id, cfg.profile_id)
        IN  /\ ~Found(remote', path)
            /\ sendRequest("GET", path, "", remote', "none").status = 404]_vars

---------------------------------------------------------------------------
(* Import: the resource taken over by its identifier *)

\* schema.ImportStatePassthrough: the resource data the importer hands on,
\* the identifier set and no attribute populated yet
ImportStatePassthrough(id) ==
    [id |-> id, operator_id |-> "", profile_id |-> "", enabled |-> FALSE,
     weight |-> 0, depends |-> <<>>, description |-> "",
     parameter_schema |-> "", reply |-> <<>>, control |-> <<>>]

\* the two components of a tracked identity operator_id/profile_id
IdParts(id) ==
    CHOOSE p \in OperatorIds \X ProfileIds : p[1] \o "/" \o p[2] = id

\* Import is called for a resource that has no identity yet, with the
\* identifier of the profile the configuration describes
Import ==
    /\ d.id = ""
    /\ d' = ImportStatePassthrough(cfg.operator_id \o "/" \o cfg.profile_id)
    /\ ret' = [op |-> "import", err |-> NoErr, exists |-> FALSE, resp |-> NoResp]
    /\ log' = <<>>
    /\ UNCHANGED <<cfg, remote, providerVars>>

NextImport ==
    \/ Next
    \/ Import

SpecImport == Init /\ [][NextImport]_vars

(* C20: a read addresses the object its tracked identity names.  For a     *)
(* resource just imported by identifier, whose operator_id and profile_id  *)
(* attributes are not populated yet, resourceProfileRead sends its GET to  *)
(* /operator/{operator_id}/profile/{profile_id} of the two components of   *)
(* that identity; and a read that finds the object leaves the tracked      *)
(* identity as it was.  Stated of the read that follows the import.        *)
C20_ReadAddressesTrackedIdentity ==
    [][(Read /\ ret.op = "import") =>
        LET parts == IdParts(d.id)
        IN  /\ Len(log') = 1
            /\ log'[1] = Request("GET", "/operator/" \o parts[1] \o "/profile/" \o parts[2])
            /\ (ret'.err.nil /\ ret'.resp.err.nil /\ Is2xx(ret'.resp.status))
                    => d'.id = d.id]_vars

---------------------------------------------------------------------------
(* Validation before the handlers: configurations as they are written,     *)
(* valid or not, and the handlers called only for a configuration that     *)
(* passed the schema                                                       *)

RawProfileIds == {"abc", "a_9", LongestId, "ab", TooLongId, "Abc", "a-c"}

\* weight and op are optional: not set, or set to the one value
RawWeights == {<<>>, <<1>>, <<100000>>, <<0>>, <<100001>>}
RawOps == {<<>>, <<"=">>, <<"|--">>, <<"-=">>}

\* what else a configuration sets
RawOthers ==
    { EmptyObject,
      [depends |-> <<"dep_a">>, description |-> "Gold tier.",
       parameter_schema |-> "{\"type\":\"object\"}", enabled |-> FALSE],
      [depends |-> <<"dep_a", "Dep">>],
      [description |-> "Gold tier!"],
      [parameter_schema |-> "{type"],
      [operator_id |-> " "],
      [control |-> <<[name |-> " ", value |-> <<"x">>]>>] }

RawConfig(p, w, o, x) ==
    LET attr == (IF o = <<>> THEN EmptyObject ELSE [op |-> o[1]])
                    @@ [name |-> "Reply-Message", value |-> <<"hello">>]
    IN  x @@ (IF w = <<>> THEN EmptyObject ELSE [weight |-> w[1]])
          @@ [operator_id |-> "op_1", profile_id |-> p, reply |-> <<attr>>]

RawConfigs ==
    { RawConfig(p, w, o, x) :
        p \in RawProfileIds, w \in RawWeights, o \in RawOps, x \in RawOthers }

InitValidation ==
    /\ cfg \in RawConfigs
    /\ d = NewResourceData(cfg)
    /\ remote = NoRemote
    /\ ret = [op |-> "none", err |-> NoErr, exists |-> FALSE, resp |-> NoResp]
    /\ log = <<>>
    /\ provider = TestProvider
    /\ tokens = NewTokenManager(FALSE)

\* the configuration is validated against the schema; nothing is sent
ValidateResource ==
    /\ ret' = [op |-> "validate", err |-> validateResource(cfg),
               exists |-> FALSE, resp |-> NoResp]
    /\ log' = <<>>
    /\ UNCHANGED <<cfg, d, remote, providerVars>>

\* a handler is called only for a configuration that passed validation
ValidatedCreate == validateResource(cfg).nil /\ Create
ValidatedRead == validateResource(cfg).nil /\ Read
ValidatedUpdate == validateResource(cfg).nil /\ Update
ValidatedDelete == validateResource(cfg).nil /\ Delete

NextValidation ==
    \/ ValidateResource
    \/ ValidatedCreate
    \/ ValidatedRead
    \/ ValidatedUpdate
    \/ ValidatedDelete
    \/ RemoteStore
    \/ RemoteRemove

SpecValidation == InitValidation /\ [][NextValidation]_vars

\* the three violations of the schema the claim names
C11_ViolatesSchema ==
    \/ \E g \in {"reply", "control"} :
        \E i \in 1..Len(Setting(cfg, g, <<>>)) :
            /\ "op" \in DOMAIN cfg[g][i]
            /\ cfg[g][i].op \notin {"=", ":=", "+=", "|=", "|:=", "|+=", "|--"}
    \/ LET id == Chars(cfg.profile_id)
       IN  \/ Len(id) < 3
           \/ Len(id) > 32
           \/ \E i \in 1..Len(id) : id[i] \notin Digit \cup Lower \cup {"_"}
    \/ "weight" \in DOMAIN cfg /\ (cfg.weight < 1 \/ cfg.weight > 100000)

(* C11: a configuration that violates the schema (an op outside the seven  *)
(* operators, a profile_id that does not match ^[0-9a-z_]{3,32}$, a weight *)
(* outside 1..100000) is rejected with a validation error and no request   *)
(* is ever issued for it: every step taken for such a configuration is a   *)
(* failing validation that sends nothing and leaves the resource data.     *)
C11_InvalidConfigurationNeverSent ==
    [][C11_ViolatesSchema =>
        /\ log' = <<>>
        /\ d' = d
        /\ \/ ret' = ret
           \/ ret'.op = "validate" /\ ~ret'.err.nil]_vars

C11_Witness ==
    /\ "weight" \in DOMAIN cfg
    /\ cfg.weight = 100001
    /\ ret.op = "validate"
    /\ ~ret.err.nil
    /\ log = <<>>

(* C12: a tracked profile, after any sequence of create and read (reads    *)
(* that populate the state from the remote document included), has a       *)
(* profile_id matching ^[0-9a-z_]{3,32}$, a weight within 1..100000, and   *)
(* in every reply and control entry an op out of the seven operators,      *)
(* which is := where the configuration did not set it.                     *)
C12_TrackedProfileKeepsItsInvariants ==
    (d.id # "" /\ ret.op \in {"create", "read"}) =>
        /\ LET id == Chars(d.profile_id)
           IN  /\ Len(id) >= 3
               /\ Len(id) <= 32
               /\ \A i \in 1..Len(id) : id[i] \in Digit \cup Lower \cup {"_"}
        /\ d.weight >= 1
        /\ d.weight <= 100000
        /\ \A g \in {"reply", "control"} :
            \A i \in 1..Len(d[g]) :
                /\ d[g][i].op \in {"=", ":=", "+=", "|=", "|:=", "|+=", "|--"}
                /\ (i <= Len(Setting(cfg, g, <<>>)) /\ "op" \notin DOMAIN cfg[g][i])
                        => d[g][i].op = ":="

---------------------------------------------------------------------------
(* Configuring the provider *)

\* the resource the provider serves, untouched while the provider is configured
IdleResource ==
    /\ cfg = [operator_id |-> "op_1", profile_id |-> "abc"]
    /\ d = NewResourceData(cfg)
    /\ remote = NoRemote
    /\ ret = [op |-> "none", err |-> NoErr, exists |-> FALSE, resp |-> NoResp]
    /\ log = <<>>

\* the OAuth block: none, a whole one, and one that sets the client id only
OAuthBlocks ==
    { <<>>,
      <<[oauth_client_id |-> "test", oauth_client_secret |-> "secret",
         oauth_token_endpoint |-> "https://token.example/oauth",
         oauth_scopes |-> <<"read", "write">>]>>,
      <<[oauth_client_id |-> "test"]>> }

\* what a configuration of the provider sets
ProviderConfigs ==
    { u @@ o @@ t @@ g :
        u \in { EmptyObject, [uri |-> "http://127.0.0.1:8085/"],
                [uri |-> "http://foo.bar/baz"], [uri |-> "foo.bar/baz"],
                [uri |-> ""] },
        o \in { IF b = <<>> THEN EmptyObject ELSE [oauth_client_credentials |-> b] :
                b \in OAuthBlocks },
        t \in { EmptyObject, [test_path |-> "/api/objects"],
                [test_path |-> "/api/apaththatdoesnotexist"] },
        g \in { EmptyObject, [debug |-> TRUE, timeout |-> 5] } }

\* the environment the provider is configured in
Environments ==
    { EmptyObject,
      [REST_API_URI |-> "http://127.0.0.1:8085/"],
      [REST_API_URI |-> ""],
      [REST_API_URI |-> "foo.bar/baz"],
      [REST_API_URL |-> "http://foo.bar/baz", REST_API_DEBUG |-> "true"] }

\* the paths the API answers
ServedPaths == {"/api/objects"}

InitProvider ==
    /\ IdleResource
    /\ provider \in { NewProvider(raw, env, reachable) :
                        raw \in ProviderConfigs, env \in Environments,
                        reachable \in BOOLEAN }
    /\ tokens = NewTokenManager(FALSE)

\* Configure: configureProvider is called once; the client it returns
\* carries its own token manager
Configure ==
    /\ ~provider.configured
    /\ LET client == configureProvider(provider.raw, provider.env)
       IN  /\ provider' = [provider EXCEPT !.configured = TRUE, !.client = client]
           /\ tokens' = NewTokenManager(client.oauth)
    /\ UNCHANGED resourceVars

NextProvider == Configure

SpecProvider == InitProvider /\ [][NextProvider]_vars

(* C14: configuring the provider with a test_path issues a request to the  *)
(* base URI plus that path while configuring; configuration succeeds when  *)
(* the path answers and returns an error when the path does not exist.     *)
C14_TestPathIsRequested ==
    (/\ provider.configured
     /\ "test_path" \in DOMAIN provider.raw
     /\ provider.reachable
     /\ Setting(provider.raw, "uri", "") = "http://127.0.0.1:8085/") =>
        /\ Len(provider.client.requests) = 1
        /\ provider.client.err.nil <=> provider.raw.test_path \in ServedPaths

---------------------------------------------------------------------------
(* The token manager under concurrent callers *)

InitToken ==
    /\ IdleResource
    /\ provider = TestProvider
    /\ tokens \in {NewTokenManager(TRUE), NewTokenManager(FALSE)}

\* caller c calls get_token; a call that would send one more grant request
\* than the run allows is not made
GetToken(c) ==
    /\ tokens.callers[c].pc = "idle"
    /\ get_token(tokens, c).grants <= MaxGrants
    /\ tokens' = get_token(tokens, c)
    /\ UNCHANGED <<resourceVars, provider>>

\* the token endpoint answers the grant request: a token, or a failure
GrantAnswered ==
    /\ tokens.inflight > 0
    /\ \E expires_in \in TokenLifetimes \cup {0} :
        tokens' = grantAnswered(tokens, expires_in)
    /\ UNCHANGED <<resourceVars, provider>>

\* caller c has used what get_token returned and may call again
Return(c) ==
    /\ tokens.callers[c].pc = "done"
    /\ tokens' = [tokens EXCEPT !.callers[c] = [pc |-> "idle", result |-> NoResult]]
    /\ UNCHANGED <<resourceVars, provider>>

\* time passes
Tick ==
    /\ tokens.now < MaxTime
    /\ tokens' = [tokens EXCEPT !.now = tokens.now + 1]
    /\ UNCHANGED <<resourceVars, provider>>

NextToken ==
    \/ \E c \in Callers : GetToken(c)
    \/ GrantAnswered
    \/ \E c \in Callers : Return(c)
    \/ Tick

SpecToken == InitToken /\ [][NextToken]_vars

(* C13: get_token never returns a token whose expiry is at or before the   *)
(* current time; and when several callers call while the cached token is   *)
(* missing or expired, exactly one grant request is sent (never a second   *)
(* one while one is on its way or while a valid token is cached) and all   *)
(* of those callers receive its result.                                    *)
C13_NoExpiredTokenAndSingleFlight ==
    [][LET t == tokens
           u == tokens'
           waiting(x) == {c \in Callers : x.callers[c].pc = "waiting"}
       IN  /\ \A c \in Callers :
                (/\ t.callers[c].pc # "done"
                 /\ u.callers[c].pc = "done"
                 /\ u.callers[c].result.kind = "token") =>
                    u.callers[c].result.expiry > u.now
           /\ u.inflight <= 1
           /\ waiting(u) # {} => u.inflight = 1
           /\ u.grants # t.grants =>
                /\ u.grants = t.grants + 1
                /\ t.inflight = 0
                /\ ~(t.cache.present /\ t.cache.expiry > t.now)
           /\ u.inflight < t.inflight =>
                /\ waiting(u) = {}
                /\ \A c1, c2 \in waiting(t) :
                    /\ u.callers[c1].pc = "done"
                    /\ u.callers[c1].result = u.callers[c2].result
                    /\ u.callers[c1].result.kind \in {"token", "AuthError"}
                    /\ u.callers[c1].result.kind = "token" =>
                            u.callers[c1].result.id = t.grants]_vars

C13_Witness ==
    /\ tokens.cache.present
    /\ tokens.cache.expiry <= tokens.now
    /\ tokens.grants = 2
    /\ tokens.inflight = 1
    /\ \A c \in Callers : tokens.callers[c].pc = "waiting"

=============================================================================
